---- MODULE Spec2Model ----
(***************************************************************************)
(* Model of the dictation pipeline of tambourine-voice:                    *)
(*   server/processors/transcription_buffer.py  TranscriptionBufferProcessor *)
(*   server/processors/llm_cleanup.py           TranscriptionToLLMConverter, *)
(*                                              LLMResponseToRTVIConverter   *)
(*   server/protocol/messages.py                parse_client_message         *)
(*                                                                         *)
(* A Python str is a sequence of one-character strings; a Python value of  *)
(* type Any (a JSON payload) is a tagged record: NoneV, Str(s), Int(n),    *)
(* Dict(d) where d is a record holding the keys that are present.          *)
(***************************************************************************)
EXTENDS Naturals, Sequences, FiniteSets, TLC

\* ------------------------------------------------------------------ bounds

\* Longest text the buffer (and the response accumulator) may hold.
MaxBuf == 4

\* Frames fed to the whole pipeline in one run.
MaxInputs == 5

\* ------------------------------------------------------------ Python values

\* The characters texts are made of; " " stands for any whitespace character.
Chars == {"a", "b", " "}

Whitespace == {" "}

None == "None"

NoneV == [t |-> "none"]

Str(s) == [t |-> "str", s |-> s]

Int(n) == [t |-> "int", n |-> n]

Dict(d) == [t |-> "dict", d |-> d]

\* The empty dict {}.
EmptyDict == Dict(<<>>)

\* dict.get(key, default)
dict_get_default(d, key, default) == IF key \in DOMAIN d THEN d[key] ELSE default

\* dict.get(key): None when the key is absent
dict_get(d, key) == dict_get_default(d, key, NoneV)

\* isinstance(value, dict)
is_dict(v) == v.t = "dict"

\* str.lstrip(): drop the leading whitespace
RECURSIVE str_lstrip(_)
str_lstrip(s) ==
    IF s = <<>> THEN s
    ELSE IF Head(s) \in Whitespace THEN str_lstrip(Tail(s))
    ELSE s

\* str.rstrip(): drop the trailing whitespace
RECURSIVE str_rstrip(_)
str_rstrip(s) ==
    IF s = <<>> THEN s
    ELSE IF s[Len(s)] \in Whitespace THEN str_rstrip(SubSeq(s, 1, Len(s) - 1))
    ELSE s

\* A mutant of str_strip: only the trailing whitespace is dropped.
str_strip_trailing_only(s) == str_rstrip(s)

\* str.strip()
str_strip(s) == str_rstrip(str_lstrip(s))

\* All texts of length at most n.
RECURSIVE TextsUpTo(_)
TextsUpTo(n) ==
    IF n = 0 THEN {<<>>}
    ELSE LET shorter == TextsUpTo(n - 1)
         IN  shorter \cup {Append(s, c) : s \in {x \in shorter : Len(x) = n - 1}, c \in Chars}

\* ------------------------------------------------------------------ frames

\* The classes a frame class derives from (pipecat.frames.frames).
Bases(cls) ==
    CASE cls = "TranscriptionFrame" -> {"TranscriptionFrame", "TextFrame", "Frame"}
      [] OTHER -> {cls, "Frame"}

\* isinstance(frame, cls)
isinstance(frame, cls) == cls \in Bases(frame.cls)

TranscriptionFrame(text, user_id, timestamp, language) ==
    [cls |-> "TranscriptionFrame", text |-> text, user_id |-> user_id,
     timestamp |-> timestamp, language |-> language]

InputTransportMessageFrame(message) ==
    [cls |-> "InputTransportMessageFrame", message |-> message]

OutputTransportMessageFrame(message) ==
    [cls |-> "OutputTransportMessageFrame", message |-> message]

TextFrame(text) == [cls |-> "TextFrame", text |-> text]

LLMFullResponseStartFrame == [cls |-> "LLMFullResponseStartFrame"]

LLMFullResponseEndFrame == [cls |-> "LLMFullResponseEndFrame"]

OpenAILLMContextFrame(messages) == [cls |-> "OpenAILLMContextFrame", messages |-> messages]

\* A frame of no class the processors look for (audio, system frames, ...).
OtherFrame == [cls |-> "UserStartedSpeakingFrame"]

\* One push_frame(frame, direction) call.
Push(frame, direction) == [frame |-> frame, direction |-> direction]

Directions == {"DOWNSTREAM", "UPSTREAM"}

\* datetime.now(UTC).isoformat(): the time of the flush, abstracted to one value.
utcnow_isoformat == "now"

\* ---------------------------------------------- TranscriptionBufferProcessor

\* __init__
TBP_init == [buffer |-> <<>>, last_user_id |-> "user", last_language |-> None]

\* A mutant of message_type: the outer type is always the signal.
message_type_outer_only(message) ==
    IF is_dict(message) THEN dict_get(message.d, "type") ELSE NoneV

\* The message type extracted from a transport message payload.
message_type(message) ==
    IF is_dict(message)
    THEN LET outer_type == dict_get(message.d, "type")
         IN  IF outer_type = Str("client-message")
             THEN LET data == dict_get_default(message.d, "data", EmptyDict)
                  IN  IF is_dict(data) THEN dict_get(data.d, "t") ELSE NoneV
             ELSE outer_type
    ELSE NoneV

\* A mutant of TBP_on_transcription: the fragment is also passed on.
TBP_on_transcription_forwards(self, frame) ==
    IF frame.text # <<>>
    THEN [self |-> [buffer |-> self.buffer \o frame.text,
                    last_user_id |-> frame.user_id,
                    last_language |-> frame.language],
          pushed |-> <<Push(frame, "DOWNSTREAM")>>]
    ELSE [self |-> self, pushed |-> <<Push(frame, "DOWNSTREAM")>>]

\* A mutant of TBP_on_transcription: whitespace-only text is ignored too.
TBP_on_transcription_ignores_whitespace(self, frame) ==
    IF str_strip(frame.text) # <<>>
    THEN [self |-> [buffer |-> self.buffer \o frame.text,
                    last_user_id |-> frame.user_id,
                    last_language |-> frame.language],
          pushed |-> <<>>]
    ELSE [self |-> self, pushed |-> <<>>]

\* A mutant of TBP_on_transcription: the metadata is recorded for the first
\* fragment of a buffer only.
TBP_on_transcription_keeps_first_speaker(self, frame) ==
    IF frame.text # <<>>
    THEN [self |-> [buffer |-> self.buffer \o frame.text,
                    last_user_id |-> IF self.buffer = <<>> THEN frame.user_id
                                     ELSE self.last_user_id,
                    last_language |-> IF self.buffer = <<>> THEN frame.language
                                      ELSE self.last_language],
          pushed |-> <<>>]
    ELSE [self |-> self, pushed |-> <<>>]

\* The branch for a TranscriptionFrame: accumulate, push nothing.
TBP_on_transcription(self, frame) ==
    IF frame.text # <<>>
    THEN [self |-> [buffer |-> self.buffer \o frame.text,
                    last_user_id |-> frame.user_id,
                    last_language |-> frame.language],
          pushed |-> <<>>]
    ELSE [self |-> self, pushed |-> <<>>]

\* A mutant of TBP_on_start_recording: the metadata is kept.
TBP_on_start_recording_keeps_metadata(self) ==
    [self |-> [self EXCEPT !.buffer = <<>>], pushed |-> <<>>]

\* A mutant of TBP_on_start_recording: the buffer is kept.
TBP_on_start_recording_keeps_buffer(self) ==
    [self |-> [self EXCEPT !.last_user_id = "user", !.last_language = None],
     pushed |-> <<>>]

\* The branch for start-recording: reset, push nothing.
TBP_on_start_recording(self) ==
    [self |-> [buffer |-> <<>>, last_user_id |-> "user", last_language |-> None],
     pushed |-> <<>>]

\* A mutant of TBP_on_stop_recording: the buffer is flushed whenever it is
\* not the empty string.
TBP_on_stop_recording_flushes_whitespace(self, direction) ==
    IF self.buffer # <<>>
    THEN [self |-> [self EXCEPT !.buffer = <<>>],
          pushed |-> <<Push(TranscriptionFrame(str_strip(self.buffer), self.last_user_id,
                                               utcnow_isoformat, self.last_language),
                            direction)>>]
    ELSE [self |-> self, pushed |-> <<>>]

\* A mutant of TBP_on_stop_recording: the buffer is cleared even when nothing
\* is flushed.
TBP_on_stop_recording_always_clears(self, direction) ==
    [self |-> [self EXCEPT !.buffer = <<>>],
     pushed |-> IF str_strip(self.buffer) # <<>>
                THEN <<Push(TranscriptionFrame(str_strip(self.buffer), self.last_user_id,
                                               utcnow_isoformat, self.last_language),
                            direction)>>
                ELSE <<>>]

\* A mutant of TBP_on_stop_recording: the fragment pushed carries the buffer
\* as it is, untrimmed.
TBP_on_stop_recording_pushes_untrimmed(self, direction) ==
    IF str_strip(self.buffer) # <<>>
    THEN [self |-> [self EXCEPT !.buffer = <<>>],
          pushed |-> <<Push(TranscriptionFrame(self.buffer, self.last_user_id,
                                               utcnow_isoformat, self.last_language),
                            direction)>>]
    ELSE [self |-> self, pushed |-> <<>>]

\* The branch for stop-recording: flush the buffer if it holds text.
TBP_on_stop_recording(self, direction) ==
    IF str_strip(self.buffer) # <<>>
    THEN [self |-> [self EXCEPT !.buffer = <<>>],
          pushed |-> <<Push(TranscriptionFrame(str_strip(self.buffer), self.last_user_id,
                                               utcnow_isoformat, self.last_language),
                            direction)>>]
    ELSE [self |-> self, pushed |-> <<>>]

\* A mutant of TBP_process_frame: every transport message is consumed, only
\* the other frames pass through.
TBP_process_frame_swallows_messages(self, frame, direction) ==
    IF isinstance(frame, "TranscriptionFrame")
    THEN TBP_on_transcription(self, frame)
    ELSE IF isinstance(frame, "InputTransportMessageFrame")
            /\ message_type(frame.message) = Str("start-recording")
    THEN TBP_on_start_recording(self)
    ELSE IF isinstance(frame, "InputTransportMessageFrame")
            /\ message_type(frame.message) = Str("stop-recording")
    THEN TBP_on_stop_recording(self, direction)
    ELSE IF isinstance(frame, "InputTransportMessageFrame")
    THEN [self |-> self, pushed |-> <<>>]
    ELSE [self |-> self, pushed |-> <<Push(frame, direction)>>]

\* TranscriptionBufferProcessor.process_frame: the new state and the frames pushed.
TBP_process_frame(self, frame, direction) ==
    IF isinstance(frame, "TranscriptionFrame")
    THEN TBP_on_transcription(self, frame)
    ELSE IF isinstance(frame, "InputTransportMessageFrame")
            /\ message_type(frame.message) = Str("start-recording")
    THEN TBP_on_start_recording(self)
    ELSE IF isinstance(frame, "InputTransportMessageFrame")
            /\ message_type(frame.message) = Str("stop-recording")
    THEN TBP_on_stop_recording(self, direction)
    ELSE [self |-> self, pushed |-> <<Push(frame, direction)>>]

\* ----------------------------------------------- TranscriptionToLLMConverter

\* The system prompt for text cleanup, abstracted to one token.
CLEANUP_SYSTEM_PROMPT == <<"CLEANUP_SYSTEM_PROMPT">>

\* OpenAILLMContext(messages=[system prompt, user text])
OpenAILLMContext(text) ==
    <<[role |-> "system", content |-> CLEANUP_SYSTEM_PROMPT],
      [role |-> "user", content |-> text]>>

\* A mutant of T2L_on_transcription: the request carries the trimmed text.
T2L_on_transcription_trims(frame, direction) ==
    IF frame.text # <<>> /\ str_strip(frame.text) # <<>>
    THEN <<Push(OpenAILLMContextFrame(OpenAILLMContext(str_strip(frame.text))), direction)>>
    ELSE <<>>

\* The branch for a TranscriptionFrame: one context frame, or nothing.
T2L_on_transcription(frame, direction) ==
    IF frame.text # <<>> /\ str_strip(frame.text) # <<>>
    THEN <<Push(OpenAILLMContextFrame(OpenAILLMContext(frame.text)), direction)>>
    ELSE <<>>

\* TranscriptionToLLMConverter.process_frame: the frames pushed (no state).
T2L_process_frame(frame, direction) ==
    IF isinstance(frame, "TranscriptionFrame")
    THEN T2L_on_transcription(frame, direction)
    ELSE <<Push(frame, direction)>>

\* ------------------------------------------------ LLMResponseToRTVIConverter

\* A Python str held in a payload, as its characters.
Text(chars) == [t |-> "text", chars |-> chars]

\* __init__
RTVI_init == [accumulator |-> <<>>, is_accumulating |-> FALSE]

\* The RTVI server message carrying the cleaned text.
rtvi_message(cleaned_text) ==
    Dict([label |-> Str("rtvi-ai"),
          type |-> Str("server-message"),
          data |-> Dict([type |-> Str("transcript"), text |-> Text(cleaned_text)])])

\* A mutant of RTVI_on_response_start: the text accumulated so far is kept.
RTVI_on_response_start_keeps_text(self) ==
    [self |-> [self EXCEPT !.is_accumulating = TRUE], pushed |-> <<>>]

\* The branch for LLMFullResponseStartFrame: start accumulating.
RTVI_on_response_start(self) ==
    [self |-> [accumulator |-> <<>>, is_accumulating |-> TRUE], pushed |-> <<>>]

\* A mutant of RTVI_on_text: the chunk is put in front of the text so far.
RTVI_on_text_prepends(self, frame) ==
    [self |-> [self EXCEPT !.accumulator = frame.text \o self.accumulator],
     pushed |-> <<>>]

\* The branch for a TextFrame received while accumulating.
RTVI_on_text(self, frame) ==
    [self |-> [self EXCEPT !.accumulator = self.accumulator \o frame.text],
     pushed |-> <<>>]

\* A mutant of RTVI_on_response_end: the message is sent even when the cleaned
\* text is empty.
RTVI_on_response_end_always_sends(self, direction) ==
    [self |-> [accumulator |-> <<>>, is_accumulating |-> FALSE],
     pushed |-> <<Push(OutputTransportMessageFrame(rtvi_message(str_strip(self.accumulator))),
                       direction)>>]

\* A mutant of RTVI_on_response_end: an end marker that finds nothing being
\* accumulated is passed on.
RTVI_on_response_end_forwards_when_closed(self, direction) ==
    LET cleaned_text == str_strip(self.accumulator)
    IN  [self |-> [accumulator |-> <<>>, is_accumulating |-> FALSE],
         pushed |-> IF ~self.is_accumulating
                    THEN <<Push(LLMFullResponseEndFrame, direction)>>
                    ELSE IF cleaned_text # <<>>
                    THEN <<Push(OutputTransportMessageFrame(rtvi_message(cleaned_text)),
                                direction)>>
                    ELSE <<>>]

\* A mutant of RTVI_on_response_end: the accumulator is not cleared.
RTVI_on_response_end_keeps_text(self, direction) ==
    LET cleaned_text == str_strip(self.accumulator)
    IN  [self |-> [self EXCEPT !.is_accumulating = FALSE],
         pushed |-> IF cleaned_text # <<>>
                    THEN <<Push(OutputTransportMessageFrame(rtvi_message(cleaned_text)),
                                direction)>>
                    ELSE <<>>]

\* The branch for LLMFullResponseEndFrame: send the cleaned text, reset.
RTVI_on_response_end(self, direction) ==
    LET cleaned_text == str_strip(self.accumulator)
    IN  [self |-> [accumulator |-> <<>>, is_accumulating |-> FALSE],
         pushed |-> IF cleaned_text # <<>>
                    THEN <<Push(OutputTransportMessageFrame(rtvi_message(cleaned_text)),
                                direction)>>
                    ELSE <<>>]

\* A mutant of RTVI_process_frame: a TextFrame is accumulated whether or not a
\* response is being accumulated.
RTVI_process_frame_accumulates_when_closed(self, frame, direction) ==
    IF isinstance(frame, "LLMFullResponseStartFrame")
    THEN RTVI_on_response_start(self)
    ELSE IF isinstance(frame, "TextFrame")
    THEN RTVI_on_text(self, frame)
    ELSE IF isinstance(frame, "LLMFullResponseEndFrame")
    THEN RTVI_on_response_end(self, direction)
    ELSE [self |-> self, pushed |-> <<Push(frame, direction)>>]

\* LLMResponseToRTVIConverter.process_frame: the new state and the frames pushed.
RTVI_process_frame(self, frame, direction) ==
    IF isinstance(frame, "LLMFullResponseStartFrame")
    THEN RTVI_on_response_start(self)
    ELSE IF isinstance(frame, "TextFrame") /\ self.is_accumulating
    THEN RTVI_on_text(self, frame)
    ELSE IF isinstance(frame, "LLMFullResponseEndFrame")
    THEN RTVI_on_response_end(self, direction)
    ELSE [self |-> self, pushed |-> <<Push(frame, direction)>>]

\* ------------------------------------------------------ parse_client_message

\* The values of `type` the ClientMessage union dispatches on.
KnownTypes == {"start-recording", "stop-recording", "set-stt-provider", "set-llm-provider"}

\* The model class each discriminant value selects.
ClassOfType(type) ==
    CASE type = "start-recording" -> "StartRecordingMessage"
      [] type = "stop-recording" -> "StopRecordingMessage"
      [] type = "set-stt-provider" -> "SetSTTProviderMessage"
      [] type = "set-llm-provider" -> "SetLLMProviderMessage"

\* Whether a value validates as STTProviderSelection (protocol/providers.py).
STTProviderSelection_valid(v) == v \in {Str("auto"), Str("stt-x")}

\* Whether a value validates as LLMProviderSelection (protocol/providers.py).
LLMProviderSelection_valid(v) == v \in {Str("auto"), Str("llm-x")}

\* Whether `raw` validates as SetSTTProviderMessage / SetLLMProviderMessage's
\* required field data: {provider: ...}.
provider_data_valid(raw, type) ==
    /\ "data" \in DOMAIN raw
    /\ is_dict(raw.data)
    /\ "provider" \in DOMAIN raw.data.d
    /\ IF type = "set-stt-provider"
       THEN STTProviderSelection_valid(raw.data.d.provider)
       ELSE LLMProviderSelection_valid(raw.data.d.provider)

\* A mutant of ClientMessage_model_validate: the discriminant alone decides,
\* the variant's fields are not validated.
ClientMessage_model_validate_no_fields(raw) ==
    IF "type" \in DOMAIN raw /\ raw.type.t = "str" /\ raw.type.s \in KnownTypes
    THEN [ok |-> TRUE,
          root |-> [cls |-> ClassOfType(raw.type.s), type |-> raw.type,
                    data |-> dict_get(raw, "data")]]
    ELSE [ok |-> FALSE]

\* ClientMessage.model_validate(raw): the discriminant selects the variant,
\* then the variant's fields are validated. ok = FALSE is a ValidationError.
ClientMessage_model_validate(raw) ==
    IF "type" \in DOMAIN raw /\ raw.type.t = "str" /\ raw.type.s \in KnownTypes
    THEN LET type == raw.type.s
         IN  IF type \in {"start-recording", "stop-recording"}
             THEN [ok |-> TRUE,
                   root |-> [cls |-> ClassOfType(type), type |-> raw.type]]
             ELSE IF provider_data_valid(raw, type)
             THEN [ok |-> TRUE,
                   root |-> [cls |-> ClassOfType(type), type |-> raw.type,
                             data |-> raw.data]]
             ELSE [ok |-> FALSE]
    ELSE [ok |-> FALSE]

\* The outcome of a call that raised `exc`.
Raise(exc) == [cls |-> "raise", exc |-> exc]

\* UnknownClientMessage(type=..., raw=...): the field `type: str` is validated.
UnknownClientMessage(type, raw) ==
    IF type.t = "str"
    THEN [cls |-> "UnknownClientMessage", type |-> type, raw |-> raw]
    ELSE Raise("ValidationError")

\* parse_client_message(raw)
parse_client_message(raw) ==
    LET wrapper == ClientMessage_model_validate(raw)
    IN  IF wrapper.ok
        THEN wrapper.root
        ELSE UnknownClientMessage(dict_get_default(raw, "type", Str("")), raw)

\* ------------------------------------------------------------------- state

VARIABLES
    tbp,            \* the TranscriptionBufferProcessor instance
    rtvi,           \* the LLMResponseToRTVIConverter instance
    lastIn,         \* the (frame, direction) of the last process_frame call
    pushed,         \* the frames that call pushed, in order
    pre,            \* the processor's state and history before that call
    joined,         \* history: fragment texts joined since the last buffer reset
    sinceStop,      \* history: fragment texts joined since the last start/stop signal
    startsInRow,    \* history: consecutive start-recording signals just processed
    afterStart,     \* history: a start-recording was processed and no fragment since
    discarded,      \* history: the last start-recording found text in the buffer
    lastAppended,   \* history: speaker and language of the last fragment appended
    respOpen,       \* history: a response-start was received and no response-end since
    respJoined,     \* history: chunk texts joined since that response-start
    raw,            \* the payload handed to parse_client_message
    parsed,         \* what parse_client_message returned or raised
    toConverter,    \* pipeline: frames pushed by the buffer, not yet converted
    toLLM,          \* pipeline: frames pushed by the converter, not yet served
    toAggregator,   \* pipeline: frames pushed by the cleanup service, not yet aggregated
    llm,            \* pipeline: the chunks the cleanup service has still to stream
    nInputs,        \* pipeline: frames fed to the buffer so far
    utterances,     \* history: stop-recording signals that closed a non-empty utterance
    requests,       \* history: cleanup requests the converter pushed
    flushed,        \* history: the texts of the fragments the buffer pushed, in order
    requested,      \* history: the user texts of those cleanup requests, in order
    completed,      \* history: responses whose end marker the aggregator processed
    nonBlank,       \* history: those of them whose chunks trim to a non-empty text
    transcripts     \* history: transcript messages pushed towards the client

bufferHistory == <<joined, sinceStop, startsInRow, afterStart, discarded, lastAppended>>

aggregatorHistory == <<respOpen, respJoined>>

parseVars == <<raw, parsed>>

pipelineQueues == <<toConverter, toLLM, toAggregator, llm>>

pipelineHistory ==
    <<nInputs, utterances, requests, flushed, requested, completed, nonBlank, transcripts>>

pipelineVars == <<pipelineQueues, pipelineHistory>>

vars == <<tbp, rtvi, lastIn, pushed, pre, bufferHistory, aggregatorHistory, parseVars,
          pipelineVars>>

\* No process_frame call yet.
NoInput == [frame |-> [cls |-> "none"], direction |-> "DOWNSTREAM"]

\* No parse_client_message call yet.
NotParsed == [cls |-> "not-parsed"]

\* The cleanup service is between two responses.
Idle == [streaming |-> FALSE, chunks |-> <<>>]

\* The pipeline before any frame.
InitPipelineVars ==
    /\ toConverter = <<>>
    /\ toLLM = <<>>
    /\ toAggregator = <<>>
    /\ llm = Idle
    /\ nInputs = 0
    /\ utterances = 0
    /\ requests = 0
    /\ flushed = <<>>
    /\ requested = <<>>
    /\ completed = 0
    /\ nonBlank = 0
    /\ transcripts = 0

\* ------------------------------------------- the claims' own vocabulary

\* No fragment has been appended since the buffer was last emptied; `since`
\* is what emptied it: "reset" (construction or a start-recording) or "flush"
\* (a stop-recording that pushed a fragment).
NoFragment(since) == [user_id |-> "nobody", language |-> "nothing", since |-> since]

\* trim: the text between the first and the last non-whitespace character.
Trim(s) ==
    LET keep == {i \in 1..Len(s) : s[i] \notin Whitespace}
    IN  IF keep = {} THEN <<>>
        ELSE SubSeq(s, CHOOSE i \in keep : \A j \in keep : i <= j,
                       CHOOSE i \in keep : \A j \in keep : j <= i)

\* The signal of an inbound envelope: data.t of a "client-message" envelope,
\* the outer type of any other.
Signal(message) ==
    IF ~is_dict(message) THEN NoneV
    ELSE IF "type" \in DOMAIN message.d /\ message.d.type = Str("client-message")
    THEN IF "data" \in DOMAIN message.d /\ is_dict(message.d.data)
            /\ "t" \in DOMAIN message.d.data.d
         THEN message.d.data.d.t
         ELSE NoneV
    ELSE IF "type" \in DOMAIN message.d THEN message.d.type
    ELSE NoneV

IsFragment(frame) == frame.cls = "TranscriptionFrame"

\* The user text of a cleanup request: the content of its message of role
\* "user".
UserText(frame) ==
    LET i == CHOOSE i \in 1..Len(frame.messages) : frame.messages[i].role = "user"
    IN  frame.messages[i].content

IsSignal(frame, signal) ==
    frame.cls = "InputTransportMessageFrame" /\ Signal(frame.message) = Str(signal)

IsStart(frame) == IsSignal(frame, "start-recording")

IsStop(frame) == IsSignal(frame, "stop-recording")

\* ----------------------------------------------------------------- inputs

UserIds == {"user", "alice"}

Languages == {None, "en"}

\* The fragments the recognizer delivers: empty, whitespace and one-letter texts.
FragmentTexts == {<<>>} \cup {<<c>> : c \in Chars}

Fragments ==
    {TranscriptionFrame(text, user_id, "t0", language) :
        text \in FragmentTexts, user_id \in UserIds, language \in Languages}

Signals == {"start-recording", "stop-recording", "ping"}

\* {"type": signal}
FlatEnvelope(signal) == Dict([type |-> Str(signal)])

\* {"type": "client-message", "data": {"t": signal, "d": {}}}
NestedEnvelope(signal) ==
    Dict([type |-> Str("client-message"),
          data |-> Dict([t |-> Str(signal), d |-> EmptyDict])])

\* Payloads of neither form, or of a form with a part missing.
OddMessages ==
    { Str("stop-recording"),
      NoneV,
      EmptyDict,
      Dict([type |-> NoneV]),
      Dict([type |-> Str("client-message")]),
      Dict([type |-> Str("client-message"), data |-> EmptyDict]),
      Dict([type |-> Str("client-message"), data |-> Str("stop-recording")]),
      Dict([type |-> Str("client-message"), data |-> Dict([t |-> NoneV])]),
      Dict([type |-> Str("ping"), data |-> Dict([t |-> Str("stop-recording")])]),
      Dict([type |-> Str("stop-recording"), data |-> Dict([t |-> Str("start-recording")])]),
      Dict([data |-> Dict([t |-> Str("start-recording")])]) }

Messages ==
    {FlatEnvelope(s) : s \in Signals} \cup {NestedEnvelope(s) : s \in Signals}
        \cup OddMessages

MessageFrames == {InputTransportMessageFrame(m) : m \in Messages}

\* Frames that are neither fragments nor transport messages.
OtherFrames == {OtherFrame, TextFrame(<<"a">>)}

\* ------------------------------------ TranscriptionBufferProcessor alone

InitCommon ==
    /\ tbp = TBP_init
    /\ rtvi = RTVI_init
    /\ lastIn = NoInput
    /\ pushed = <<>>
    /\ joined = <<>>
    /\ sinceStop = <<>>
    /\ startsInRow = 0
    /\ afterStart = FALSE
    /\ discarded = FALSE
    /\ lastAppended = NoFragment("reset")
    /\ respOpen = FALSE
    /\ respJoined = <<>>
    /\ raw = <<>>
    /\ parsed = NotParsed
    /\ InitPipelineVars

\* The buffer's state and the history of its fragments, as a call finds them.
BufferBefore ==
    [self |-> tbp, joined |-> joined, sinceStop |-> sinceStop, lastAppended |-> lastAppended]

InitBuffer == InitCommon /\ pre = BufferBefore

\* process_frame(frame, direction) on the buffer, with the history it leaves.
BufferCall(frame, direction) ==
    LET r == TBP_process_frame(tbp, frame, direction)
    IN  /\ tbp' = r.self
        /\ pushed' = r.pushed
        /\ pre' = BufferBefore
        /\ lastIn' = Push(frame, direction)
        /\ joined' = IF IsFragment(frame) THEN joined \o frame.text
                     ELSE IF IsStart(frame) THEN <<>>
                     ELSE IF IsStop(frame) /\ Trim(joined) # <<>> THEN <<>>
                     ELSE joined
        /\ sinceStop' = IF IsFragment(frame) THEN sinceStop \o frame.text
                        ELSE IF IsStart(frame) \/ IsStop(frame) THEN <<>>
                        ELSE sinceStop
        /\ startsInRow' = IF IsStart(frame)
                          THEN (IF startsInRow = 0 THEN 1 ELSE 2)
                          ELSE 0
        /\ afterStart' = IF IsStart(frame) THEN TRUE
                         ELSE IF IsFragment(frame) THEN FALSE
                         ELSE afterStart
        /\ discarded' = IF IsStart(frame) THEN Trim(tbp.buffer) # <<>> ELSE discarded
        /\ lastAppended' =
              IF IsFragment(frame) /\ frame.text # <<>>
              THEN [lastAppended EXCEPT !.user_id = frame.user_id,
                                        !.language = frame.language]
              ELSE IF IsStart(frame) THEN NoFragment("reset")
              ELSE IF IsStop(frame) /\ Trim(joined) # <<>> THEN NoFragment("flush")
              ELSE lastAppended
        /\ UNCHANGED <<rtvi, aggregatorHistory, parseVars, pipelineVars>>

\* A fragment arrives from the recognizer, which is upstream of the buffer.
BufferTranscription ==
    \E frame \in Fragments :
        /\ Len(tbp.buffer) + Len(frame.text) <= MaxBuf
        /\ Len(joined) + Len(frame.text) <= MaxBuf
        /\ BufferCall(frame, "DOWNSTREAM")

\* A transport message arrives from the input transport, upstream of the buffer.
BufferTransportMessage ==
    \E frame \in MessageFrames : BufferCall(frame, "DOWNSTREAM")

\* Any other frame arrives, from either side.
BufferOther ==
    \E frame \in OtherFrames, direction \in Directions : BufferCall(frame, direction)

NextBuffer == BufferTranscription \/ BufferTransportMessage \/ BufferOther

SpecBuffer == InitBuffer /\ [][NextBuffer]_vars

\* ------------------------------------------------ claims about the buffer

\* What a stop-recording is to push when `text` is what was received: nothing
\* if trim(text) is empty, else exactly one fragment whose text is trim(text).
FlushOf(text) ==
    IF Trim(text) = <<>>
    THEN pushed = <<>>
    ELSE /\ Len(pushed) = 1
         /\ pushed[1].frame.cls = "TranscriptionFrame"
         /\ pushed[1].frame.text = Trim(text)

\* C1: a stop-recording emits exactly trim(F1.text + ... + Fn.text), the texts
\* of the fragments received since the buffer was last reset joined in arrival
\* order with no separator, and emits nothing if that is empty. It holds
\* whether "reset" is read as the code's resets (construction, start-recording,
\* an emitting stop-recording) or as any start/stop signal.
C1_ConsolidatedTextIsTrimmedConcatenation ==
    IsStop(lastIn.frame) => FlushOf(pre.joined) /\ FlushOf(pre.sinceStop)

\* C1's case: a full buffer with whitespace to trim and an inner space is flushed.
C1_Witness ==
    /\ IsStop(lastIn.frame)
    /\ Len(pre.joined) = MaxBuf
    /\ Len(pushed) = 1
    /\ Len(pushed[1].frame.text) = MaxBuf - 1
    /\ \E i \in 1..Len(pushed[1].frame.text) : pushed[1].frame.text[i] \in Whitespace

\* C5: a start-recording leaves the buffer empty whatever it held, and a
\* stop-recording that follows it with no fragment in between emits nothing.
C5_StartDiscardsBufferedText ==
    /\ IsStart(lastIn.frame) => tbp.buffer = <<>> /\ pushed = <<>>
    /\ IsStop(lastIn.frame) /\ afterStart => pushed = <<>>

\* C5's case: text was buffered, a start-recording discarded it, then a
\* stop-recording came with no fragment in between.
C5_Witness == IsStop(lastIn.frame) /\ afterStart /\ discarded

\* C6: a stop-recording that finds the buffer empty or only whitespace pushes
\* no frame (no consolidated fragment, and not the message itself).
C6_StopOnEmptyBufferEmitsNothing ==
    IsStop(lastIn.frame) /\ Trim(pre.self.buffer) = <<>> => pushed = <<>>

\* C6's case: a stop-recording found a buffer of whitespace only.
C6_Witness ==
    /\ IsStop(lastIn.frame)
    /\ pre.self.buffer # <<>>
    /\ Trim(pre.self.buffer) = <<>>

\* C7: after one start-recording, and after a second one right behind it, the
\* state is empty text, speaker "user", no language, and nothing was pushed;
\* the second one changes nothing.
C7_StartRecordingIdempotent ==
    /\ startsInRow >= 1 =>
          /\ tbp = [buffer |-> <<>>, last_user_id |-> "user", last_language |-> None]
          /\ pushed = <<>>
    /\ startsInRow = 2 => tbp = pre.self

\* C7's case: two start-recording signals in a row, the second in nested form.
C7_Witness ==
    /\ startsInRow = 2
    /\ lastIn.frame = InputTransportMessageFrame(NestedEnvelope("start-recording"))

\* C8: for a dict envelope the signal is data.t when the outer type is
\* "client-message" and the outer type otherwise: a start-recording signal
\* resets, a stop-recording signal flushes, any other signal does neither; and
\* the nested form of either signal does exactly what its flat form does.
C8_SignalExtraction ==
    (lastIn.frame.cls = "InputTransportMessageFrame" /\ is_dict(lastIn.frame.message)) =>
        LET signal == Signal(lastIn.frame.message)
            flat(s) == TBP_process_frame(pre.self,
                           InputTransportMessageFrame(FlatEnvelope(s)), lastIn.direction)
            now == [self |-> tbp, pushed |-> pushed]
        IN  /\ signal = Str("start-recording") =>
                  tbp = TBP_init /\ pushed = <<>> /\ now = flat("start-recording")
            /\ signal = Str("stop-recording") =>
                  FlushOf(pre.self.buffer) /\ now = flat("stop-recording")
            /\ signal \notin {Str("start-recording"), Str("stop-recording")} =>
                  tbp = pre.self /\ pushed = <<lastIn>>

\* C8's case: a nested stop-recording flushed buffered text.
C8_Witness ==
    /\ lastIn.frame = InputTransportMessageFrame(NestedEnvelope("stop-recording"))
    /\ Len(pushed) = 1
    /\ pushed[1].frame.cls = "TranscriptionFrame"

\* C11: a fragment pushes nothing, whether its text is buffered or not; a
\* fragment is pushed only by a stop-recording, and then it is the only frame
\* pushed.
C11_FragmentsEmitNothing ==
    /\ IsFragment(lastIn.frame) => pushed = <<>>
    /\ (\E i \in 1..Len(pushed) : pushed[i].frame.cls = "TranscriptionFrame") =>
          IsStop(lastIn.frame) /\ Len(pushed) = 1

\* C11's case: a fragment's text went into a buffer that already held text.
C11_Witness ==
    /\ IsFragment(lastIn.frame)
    /\ pre.self.buffer # <<>>
    /\ Len(tbp.buffer) = Len(pre.self.buffer) + 1
    /\ pushed = <<>>

\* What appending a fragment does to the processor's fields.
Appended(self, frame) ==
    [buffer |-> self.buffer \o frame.text,
     last_user_id |-> frame.user_id,
     last_language |-> frame.language]

\* C12 as stated: a fragment whose text is empty or only whitespace changes
\* nothing; any other fragment is appended verbatim and its speaker and
\* language become the latest metadata.
C12_BlankFragmentIsNoOp ==
    IsFragment(lastIn.frame) =>
        IF Trim(lastIn.frame.text) = <<>>
        THEN tbp = pre.self
        ELSE tbp = Appended(pre.self, lastIn.frame)

\* C12 amended: only a fragment whose text is empty changes nothing; every
\* non-empty text, whitespace-only included, is appended verbatim and its
\* speaker and language become the latest metadata.
C12_EmptyFragmentIsNoOp ==
    IsFragment(lastIn.frame) =>
        IF lastIn.frame.text = <<>>
        THEN tbp = pre.self
        ELSE tbp = Appended(pre.self, lastIn.frame)

\* C12's case: a whitespace-only fragment from another speaker was appended
\* and replaced the metadata.
C12_Witness ==
    /\ IsFragment(lastIn.frame)
    /\ lastIn.frame.text = <<" ">>
    /\ lastIn.frame.user_id # pre.self.last_user_id
    /\ tbp.buffer = pre.self.buffer \o <<" ">>
    /\ tbp.last_user_id = lastIn.frame.user_id

\* Whether s is an initial segment of t.
IsPrefix(s, t) == Len(s) <= Len(t) /\ SubSeq(t, 1, Len(s)) = s

\* C13: the buffer is empty after every start-recording and after every
\* stop-recording that pushed a fragment, and nothing else empties a buffer
\* that held text; a fragment only extends the buffer; a stop-recording that
\* pushed nothing, and every other frame, leaves the buffer as it was.
C13_BufferEmptiedOnlyByStartOrFlush ==
    lastIn # NoInput =>
        LET emptying == IsStart(lastIn.frame) \/ (IsStop(lastIn.frame) /\ pushed # <<>>)
        IN  /\ emptying => tbp.buffer = <<>>
            /\ (pre.self.buffer # <<>> /\ tbp.buffer = <<>>) => emptying
            /\ IsFragment(lastIn.frame) => IsPrefix(pre.self.buffer, tbp.buffer)
            /\ (~emptying /\ ~IsFragment(lastIn.frame)) => tbp.buffer = pre.self.buffer

\* C13's case: a stop-recording found two or more whitespace characters in
\* the buffer, pushed nothing and left them there.
C13_Witness ==
    /\ IsStop(lastIn.frame)
    /\ Len(pre.self.buffer) >= 2
    /\ pushed = <<>>
    /\ tbp.buffer = pre.self.buffer

\* C14: a frame that is neither a fragment nor a start-recording or
\* stop-recording envelope is pushed once, unchanged and in the direction it
\* arrived, and leaves the processor's fields as they were; a fragment or a
\* start-recording or stop-recording envelope is never among the frames pushed.
C14_PassThrough ==
    lastIn # NoInput =>
        IF IsFragment(lastIn.frame) \/ IsStart(lastIn.frame) \/ IsStop(lastIn.frame)
        THEN \A i \in 1..Len(pushed) : pushed[i].frame # lastIn.frame
        ELSE pushed = <<lastIn>> /\ tbp = pre.self

\* C14's case: a client-message envelope whose data has no "t" passed through
\* a processor that held buffered text.
C14_Witness ==
    /\ lastIn.frame.cls = "InputTransportMessageFrame"
    /\ lastIn.frame.message = Dict([type |-> Str("client-message"), data |-> EmptyDict])
    /\ pre.self.buffer # <<>>
    /\ pushed = <<lastIn>>
    /\ tbp = pre.self

\* C19: the speaker and the language of a consolidated fragment are those of
\* the most recent fragment whose text was appended, and that fragment was
\* appended after the buffer was last emptied (by a start-recording or by the
\* previous stop-recording that pushed a fragment): they are never the defaults
\* of construction or reset, nor the metadata a previous flush left behind.
C19_MetadataOfLatestAppendedFragment ==
    (IsStop(lastIn.frame) /\ pushed # <<>>) =>
        /\ pre.lastAppended.user_id \in UserIds
        /\ pre.lastAppended.language \in Languages
        /\ pushed[1].frame.user_id = pre.lastAppended.user_id
        /\ pushed[1].frame.language = pre.lastAppended.language

\* C19's case: a stop-recording pushed a fragment and left its metadata
\* behind, and with no start-recording in between a second stop-recording
\* pushed the text of other fragments, whose last came from another speaker.
C19_Witness ==
    /\ IsStop(lastIn.frame)
    /\ Len(pushed) = 1
    /\ pre.lastAppended.since = "flush"
    /\ pushed[1].frame.user_id = "user"
    /\ pushed[1].frame.language = "en"
    /\ Len(pre.self.buffer) >= 2

\* ------------------------------------- TranscriptionToLLMConverter alone

\* The consolidated fragments the converter may be handed: every text up to
\* the longest, trimmed or not.
ConverterFragments ==
    {TranscriptionFrame(text, "user", "now", None) : text \in TextsUpTo(MaxBuf)}
        \cup {TranscriptionFrame(text, "alice", "now", "en") : text \in TextsUpTo(MaxBuf)}

ConverterOtherFrames ==
    OtherFrames \cup {LLMFullResponseStartFrame, LLMFullResponseEndFrame,
                      InputTransportMessageFrame(FlatEnvelope("ping")),
                      InputTransportMessageFrame(NestedEnvelope("stop-recording"))}

InitConverter == InitCommon /\ pre = [self |-> "stateless"]

\* process_frame(frame, direction) on the converter, which keeps no state.
ConverterCall(frame, direction) ==
    /\ pushed' = T2L_process_frame(frame, direction)
    /\ lastIn' = Push(frame, direction)
    /\ UNCHANGED <<tbp, rtvi, pre, bufferHistory, aggregatorHistory, parseVars, pipelineVars>>

\* A fragment arrives from the buffer, which is upstream of the converter.
ConverterTranscription ==
    \E frame \in ConverterFragments : ConverterCall(frame, "DOWNSTREAM")

\* Any other frame arrives.
ConverterOther ==
    \E frame \in ConverterOtherFrames, direction \in Directions :
        ConverterCall(frame, direction)

NextConverter == ConverterTranscription \/ ConverterOther

SpecConverter == InitConverter /\ [][NextConverter]_vars

\* C10: whatever came before, a fragment whose trimmed text is empty yields
\* nothing; any other fragment yields exactly one cleanup request (the fixed
\* prompt as instructions, the fragment's text unchanged as user text) and is
\* not itself forwarded; every other frame is forwarded unchanged, once.
C10_ConverterTransform ==
    lastIn # NoInput =>
        IF IsFragment(lastIn.frame)
        THEN IF Trim(lastIn.frame.text) = <<>>
             THEN pushed = <<>>
             ELSE /\ Len(pushed) = 1
                  /\ pushed[1].direction = lastIn.direction
                  /\ pushed[1].frame.cls = "OpenAILLMContextFrame"
                  /\ pushed[1].frame.messages =
                        <<[role |-> "system", content |-> CLEANUP_SYSTEM_PROMPT],
                          [role |-> "user", content |-> lastIn.frame.text]>>
        ELSE pushed = <<lastIn>>

\* C10's case: a fragment with whitespace around its text became a request.
C10_Witness ==
    /\ IsFragment(lastIn.frame)
    /\ Len(lastIn.frame.text) = MaxBuf
    /\ Head(lastIn.frame.text) \in Whitespace
    /\ lastIn.frame.text[MaxBuf] \in Whitespace
    /\ Len(pushed) = 1

\* -------------------------------------- LLMResponseToRTVIConverter alone

IsResponseStart(frame) == frame.cls = "LLMFullResponseStartFrame"

IsResponseEnd(frame) == frame.cls = "LLMFullResponseEndFrame"

\* A text chunk: a TextFrame, or a frame of a class derived from it.
IsChunk(frame) == "TextFrame" \in Bases(frame.cls)

\* The text chunks the cleanup service streams.
Chunks == {TextFrame(text) : text \in FragmentTexts}

AggregatorOtherFrames ==
    {OtherFrame, InputTransportMessageFrame(FlatEnvelope("ping")),
     OpenAILLMContextFrame(OpenAILLMContext(<<"a">>))}

\* The aggregator's state and the history of its chunks, as a call finds them.
AggregatorBefore == [self |-> rtvi, open |-> respOpen, joined |-> respJoined]

InitAggregator == InitCommon /\ pre = AggregatorBefore

\* process_frame(frame, direction) on the aggregator, with the history it leaves.
AggregatorCall(frame, direction) ==
    LET r == RTVI_process_frame(rtvi, frame, direction)
    IN  /\ rtvi' = r.self
        /\ pushed' = r.pushed
        /\ pre' = AggregatorBefore
        /\ lastIn' = Push(frame, direction)
        /\ respOpen' = IF IsResponseStart(frame) THEN TRUE
                       ELSE IF IsResponseEnd(frame) THEN FALSE
                       ELSE respOpen
        /\ respJoined' = IF IsResponseStart(frame) \/ IsResponseEnd(frame) THEN <<>>
                         ELSE IF IsChunk(frame) /\ respOpen THEN respJoined \o frame.text
                         ELSE respJoined
        /\ UNCHANGED <<tbp, bufferHistory, parseVars, pipelineVars>>

\* The cleanup service starts a response.
AggregatorResponseStart ==
    \E direction \in Directions : AggregatorCall(LLMFullResponseStartFrame, direction)

\* A text chunk arrives, inside a response or not.
AggregatorText ==
    \E frame \in Chunks \cup {TranscriptionFrame(<<"b">>, "user", "t0", None)},
       direction \in Directions :
        /\ Len(rtvi.accumulator) + Len(frame.text) <= MaxBuf
        /\ Len(respJoined) + Len(frame.text) <= MaxBuf
        /\ AggregatorCall(frame, direction)

\* The cleanup service ends a response, started or not.
AggregatorResponseEnd ==
    \E direction \in Directions : AggregatorCall(LLMFullResponseEndFrame, direction)

\* Any other frame arrives.
AggregatorOther ==
    \E frame \in AggregatorOtherFrames, direction \in Directions :
        AggregatorCall(frame, direction)

NextAggregator ==
    AggregatorResponseStart \/ AggregatorText \/ AggregatorResponseEnd \/ AggregatorOther

SpecAggregator == InitAggregator /\ [][NextAggregator]_vars

\* The transcript message carrying `text`, as pushed towards the client.
TranscriptMessage(text) ==
    OutputTransportMessageFrame(
        Dict([label |-> Str("rtvi-ai"),
              type |-> Str("server-message"),
              data |-> Dict([type |-> Str("transcript"), text |-> Text(text)])]))

\* C2: in a response start, chunk1..chunkN, end the start and the chunks emit
\* nothing, and the end emits exactly one transcript message whose text is
\* trim(chunk1.text + ... + chunkN.text), or nothing if that is empty.
C2_TranscriptIsTrimmedConcatenation ==
    /\ IsResponseStart(lastIn.frame) => pushed = <<>>
    /\ IsChunk(lastIn.frame) /\ pre.open => pushed = <<>>
    /\ IsResponseEnd(lastIn.frame) /\ pre.open =>
          IF Trim(pre.joined) = <<>>
          THEN pushed = <<>>
          ELSE pushed = <<Push(TranscriptMessage(Trim(pre.joined)), lastIn.direction)>>

\* C2's case: a response of chunks with whitespace to trim and an inner space
\* ended in a transcript message.
C2_Witness ==
    /\ IsResponseEnd(lastIn.frame)
    /\ pre.open
    /\ Len(pre.joined) = MaxBuf
    /\ Len(Trim(pre.joined)) = MaxBuf - 1
    /\ \E i \in 1..(MaxBuf - 1) : Trim(pre.joined)[i] \in Whitespace
    /\ Len(pushed) = 1

\* The aggregator Closed with an empty buffer, and Open with an empty buffer.
ClosedEmpty == [accumulator |-> <<>>, is_accumulating |-> FALSE]

OpenEmpty == [accumulator |-> <<>>, is_accumulating |-> TRUE]

\* C15: a response-end that finds the aggregator Closed pushes nothing, the
\* end marker included, and leaves the aggregator as it was: Closed, with an
\* empty buffer.
C15_EndWhileClosedIsNoOp ==
    IsResponseEnd(lastIn.frame) /\ ~pre.open =>
        /\ pushed = <<>>
        /\ rtvi = pre.self
        /\ rtvi = ClosedEmpty

\* C15's case: a second response-end in a row.
C15_Witness ==
    /\ IsResponseEnd(lastIn.frame)
    /\ ~pre.open
    /\ pre.self = ClosedEmpty
    /\ pushed = <<>>
    /\ rtvi = ClosedEmpty

\* C16: the aggregator is Open exactly between a response-start and the next
\* response-end; a call extends the buffer only when it finds the aggregator
\* Open and the frame is a text chunk; whenever the aggregator is Closed its
\* buffer is empty.
C16_AppendOnlyWhileOpen ==
    /\ rtvi.is_accumulating = respOpen
    /\ ~respOpen => rtvi.accumulator = <<>>
    /\ (lastIn # NoInput /\ Len(rtvi.accumulator) > Len(pre.self.accumulator)) =>
          pre.open /\ IsChunk(lastIn.frame)

\* C16's case: text had been accumulated, and the response-end left the
\* aggregator Closed with an empty buffer.
C16_Witness ==
    /\ IsResponseEnd(lastIn.frame)
    /\ pre.open
    /\ Len(pre.self.accumulator) >= 2
    /\ ~respOpen
    /\ rtvi.accumulator = <<>>

\* C17: a response-start, a response-end and a text chunk that finds the
\* aggregator Open are never among the frames pushed; every other frame, a
\* text chunk that finds the aggregator Closed included, is pushed once,
\* unchanged and in the direction it arrived, and leaves the aggregator as
\* it was.
C17_AggregatorPassThrough ==
    lastIn # NoInput =>
        IF \/ IsResponseStart(lastIn.frame)
           \/ IsResponseEnd(lastIn.frame)
           \/ (IsChunk(lastIn.frame) /\ pre.open)
        THEN \A i \in 1..Len(pushed) : pushed[i].frame # lastIn.frame
        ELSE pushed = <<lastIn>> /\ rtvi = pre.self

\* C17's case: a text chunk with text found the aggregator Closed and passed
\* through without being accumulated.
C17_Witness ==
    /\ IsChunk(lastIn.frame)
    /\ lastIn.frame.text # <<>>
    /\ ~pre.open
    /\ pushed = <<lastIn>>
    /\ rtvi = ClosedEmpty

\* C18: a response-start leaves the aggregator Open with an empty buffer,
\* whatever it had accumulated, and pushes nothing; so the text a response-end
\* sends is the trimmed concatenation of the chunks received since the most
\* recent response-start only.
C18_RestartDiscardsPartialText ==
    /\ IsResponseStart(lastIn.frame) => rtvi = OpenEmpty /\ pushed = <<>>
    /\ respOpen => rtvi.accumulator = respJoined
    /\ (IsResponseEnd(lastIn.frame) /\ pre.open /\ pushed # <<>>) =>
          pushed = <<Push(TranscriptMessage(Trim(pre.joined)), lastIn.direction)>>

\* C18's case: a response-start found the aggregator Open with text
\* accumulated and discarded it.
C18_Witness ==
    /\ IsResponseStart(lastIn.frame)
    /\ pre.open
    /\ Trim(pre.self.accumulator) # <<>>
    /\ rtvi = OpenEmpty

\* ------------------------------------------- parse_client_message alone

\* Values of `type`: absent is a payload without the key.
PayloadTypes ==
    {Str(type) : type \in KnownTypes}
        \cup {Str("ping"), Str(""), Str("client-message"), NoneV, Int(1)}

\* Values of `data`.
PayloadData ==
    {Dict([provider |-> p]) : p \in {Str("auto"), Str("stt-x"), Str("llm-x"), NoneV}}
        \cup {EmptyDict, NoneV, Str("auto")}

\* The payloads parse_client_message is handed: dicts with `type` and `data`
\* present or not, and one with a key no schema names.
RawPayloads ==
    {[type |-> type, data |-> data] : type \in PayloadTypes, data \in PayloadData}
        \cup {[type |-> type] : type \in PayloadTypes}
        \cup {[type |-> type, extra |-> Int(1)] : type \in PayloadTypes}
        \cup {[data |-> data] : data \in PayloadData}
        \cup {<<>>}

InitParse ==
    /\ tbp = TBP_init
    /\ rtvi = RTVI_init
    /\ lastIn = NoInput
    /\ pushed = <<>>
    /\ pre = [self |-> "stateless"]
    /\ joined = <<>>
    /\ sinceStop = <<>>
    /\ startsInRow = 0
    /\ afterStart = FALSE
    /\ discarded = FALSE
    /\ lastAppended = NoFragment("reset")
    /\ respOpen = FALSE
    /\ respJoined = <<>>
    /\ raw \in RawPayloads
    /\ parsed = NotParsed
    /\ InitPipelineVars

\* parse_client_message(raw) is called.
Parse ==
    /\ parsed = NotParsed
    /\ parsed' = parse_client_message(raw)
    /\ UNCHANGED <<tbp, rtvi, lastIn, pushed, pre, bufferHistory, aggregatorHistory, raw,
                   pipelineVars>>

NextParse == Parse

SpecParse == InitParse /\ [][NextParse]_vars

\* The payload's `type` is one of the recognized types.
TypeRecognized == "type" \in DOMAIN raw /\ raw.type \in {Str(type) : type \in KnownTypes}

\* The payload's fields meet the schema of the variant its `type` names.
FieldsMeetSchema ==
    raw.type \in {Str("set-stt-provider"), Str("set-llm-provider")} =>
        provider_data_valid(raw, raw.type.s)

RecognizedClasses == {ClassOfType(type) : type \in KnownTypes}

\* C4: parse_client_message never fails, and a payload whose `type` is missing
\* or not recognized comes back as Unknown with the payload's `type` ("" if
\* absent) and the payload itself as `raw`.
C4_UnknownNeverFails ==
    parsed # NotParsed =>
        /\ parsed.cls # "raise"
        /\ ~TypeRecognized =>
              /\ parsed.cls = "UnknownClientMessage"
              /\ parsed.type = dict_get_default(raw, "type", Str(""))
              /\ parsed.raw = raw

\* C9: a payload with a recognized `type` whose fields fail that variant's
\* schema comes back as Unknown with that same `type`, and a recognized result
\* is the variant the payload's `type` names, with that `type`.
C9_DiscriminantFirst ==
    parsed # NotParsed =>
        /\ TypeRecognized /\ ~FieldsMeetSchema =>
              parsed.cls = "UnknownClientMessage" /\ parsed.type = raw.type
        /\ parsed.cls \in RecognizedClasses =>
              /\ TypeRecognized
              /\ parsed.type = raw.type
              /\ parsed.cls = ClassOfType(raw.type.s)
              /\ FieldsMeetSchema

\* C9's case: set-stt-provider with a provider only the LLM schema accepts.
C9_Witness ==
    /\ parsed # NotParsed
    /\ raw = [type |-> Str("set-stt-provider"), data |-> Dict([provider |-> Str("llm-x")])]
    /\ parsed.cls = "UnknownClientMessage"

\* ------------------------------------------------------------ the pipeline
\* buffer -> converter -> cleanup service -> aggregator -> client, each stage
\* taking the frames pushed to it one at a time, in order.

\* The frames of a sequence of pushes.
FramesOf(pushes) == [i \in 1..Len(pushes) |-> pushes[i].frame]

IsTranscript(frame) ==
    /\ frame.cls = "OutputTransportMessageFrame"
    /\ frame.message.d.data.d.type = Str("transcript")

\* How many of the frames pushed are transcript messages.
TranscriptsIn(pushes) == Cardinality({i \in 1..Len(pushes) : IsTranscript(pushes[i].frame)})

PipelineInputs ==
    {TranscriptionFrame(<<"a">>, "alice", "t0", "en"),
     TranscriptionFrame(<<" ">>, "alice", "t0", "en"),
     InputTransportMessageFrame(NestedEnvelope("start-recording")),
     InputTransportMessageFrame(NestedEnvelope("stop-recording")),
     InputTransportMessageFrame(FlatEnvelope("ping"))}

\* The responses the cleanup service may stream: no chunk, whitespace only,
\* and text in two chunks.
Responses == {<<>>, << <<" ">> >>, << <<" ", "a">>, <<"b", " ">> >>}

InitPipeline == InitCommon /\ pre = BufferBefore

\* The buffer processes the next frame from the recognizer or the client.
PipelineBuffer ==
    \E frame \in PipelineInputs :
        LET r == TBP_process_frame(tbp, frame, "DOWNSTREAM")
        IN  /\ nInputs < MaxInputs
            /\ nInputs' = nInputs + 1
            /\ tbp' = r.self
            /\ toConverter' = toConverter \o FramesOf(r.pushed)
            /\ joined' = IF IsFragment(frame) THEN joined \o frame.text
                         ELSE IF IsStart(frame) THEN <<>>
                         ELSE IF IsStop(frame) /\ Trim(joined) # <<>> THEN <<>>
                         ELSE joined
            /\ utterances' = IF IsStop(frame) /\ Trim(joined) # <<>>
                             THEN utterances + 1 ELSE utterances
            /\ flushed' = IF IsStop(frame)
                          THEN flushed \o [i \in 1..Len(r.pushed) |-> r.pushed[i].frame.text]
                          ELSE flushed
            /\ UNCHANGED <<rtvi, lastIn, pushed, pre, sinceStop, startsInRow, afterStart,
                           discarded, lastAppended, aggregatorHistory, parseVars, toLLM, toAggregator,
                           llm, requests, requested, completed, nonBlank, transcripts>>

\* The converter processes the next frame the buffer pushed.
PipelineConverter ==
    /\ toConverter # <<>>
    /\ LET out == T2L_process_frame(Head(toConverter), "DOWNSTREAM")
       IN  /\ toConverter' = Tail(toConverter)
           /\ toLLM' = toLLM \o FramesOf(out)
           /\ requests' = requests
                 + Cardinality({i \in 1..Len(out) : out[i].frame.cls = "OpenAILLMContextFrame"})
           /\ requested' = IF IsFragment(Head(toConverter))
                            THEN requested \o [i \in 1..Len(out) |-> UserText(out[i].frame)]
                            ELSE requested
    /\ UNCHANGED <<tbp, rtvi, lastIn, pushed, pre, bufferHistory, aggregatorHistory,
                   parseVars, toAggregator, llm, nInputs, utterances, flushed, completed,
                   nonBlank, transcripts>>

\* The cleanup service takes a request and starts its response.
ServiceStart ==
    /\ ~llm.streaming
    /\ toLLM # <<>>
    /\ Head(toLLM).cls = "OpenAILLMContextFrame"
    /\ \E response \in Responses : llm' = [streaming |-> TRUE, chunks |-> response]
    /\ toLLM' = Tail(toLLM)
    /\ toAggregator' = Append(toAggregator, LLMFullResponseStartFrame)
    /\ UNCHANGED <<tbp, rtvi, lastIn, pushed, pre, bufferHistory, aggregatorHistory,
                   parseVars, toConverter, pipelineHistory>>

\* The cleanup service streams the next chunk of its response.
ServiceChunk ==
    /\ llm.streaming
    /\ llm.chunks # <<>>
    /\ llm' = [llm EXCEPT !.chunks = Tail(llm.chunks)]
    /\ toAggregator' = Append(toAggregator, TextFrame(Head(llm.chunks)))
    /\ UNCHANGED <<tbp, rtvi, lastIn, pushed, pre, bufferHistory, aggregatorHistory,
                   parseVars, toConverter, toLLM, pipelineHistory>>

\* The cleanup service ends its response.
ServiceEnd ==
    /\ llm.streaming
    /\ llm.chunks = <<>>
    /\ llm' = Idle
    /\ toAggregator' = Append(toAggregator, LLMFullResponseEndFrame)
    /\ UNCHANGED <<tbp, rtvi, lastIn, pushed, pre, bufferHistory, aggregatorHistory,
                   parseVars, toConverter, toLLM, pipelineHistory>>

\* The cleanup service forwards a frame that is not a request.
ServiceForward ==
    /\ ~llm.streaming
    /\ toLLM # <<>>
    /\ Head(toLLM).cls # "OpenAILLMContextFrame"
    /\ toLLM' = Tail(toLLM)
    /\ toAggregator' = Append(toAggregator, Head(toLLM))
    /\ UNCHANGED <<tbp, rtvi, lastIn, pushed, pre, bufferHistory, aggregatorHistory,
                   parseVars, toConverter, llm, pipelineHistory>>

\* The aggregator processes the next frame the cleanup service pushed; what it
\* pushes goes to the client.
PipelineAggregator ==
    /\ toAggregator # <<>>
    /\ LET frame == Head(toAggregator)
           r == RTVI_process_frame(rtvi, frame, "DOWNSTREAM")
       IN  /\ rtvi' = r.self
           /\ toAggregator' = Tail(toAggregator)
           /\ transcripts' = transcripts + TranscriptsIn(r.pushed)
           /\ completed' = IF IsResponseEnd(frame) THEN completed + 1 ELSE completed
           /\ nonBlank' = IF IsResponseEnd(frame) /\ Trim(respJoined) # <<>>
                          THEN nonBlank + 1 ELSE nonBlank
           /\ respOpen' = IF IsResponseStart(frame) THEN TRUE
                          ELSE IF IsResponseEnd(frame) THEN FALSE
                          ELSE respOpen
           /\ respJoined' = IF IsResponseStart(frame) \/ IsResponseEnd(frame) THEN <<>>
                            ELSE IF IsChunk(frame) /\ respOpen THEN respJoined \o frame.text
                            ELSE respJoined
    /\ UNCHANGED <<tbp, lastIn, pushed, pre, bufferHistory, parseVars, toConverter, toLLM,
                   llm, nInputs, utterances, requests, flushed, requested>>

Next ==
    \/ PipelineBuffer
    \/ PipelineConverter
    \/ ServiceStart
    \/ ServiceChunk
    \/ ServiceEnd
    \/ ServiceForward
    \/ PipelineAggregator

Spec == InitPipeline /\ [][Next]_vars

\* Nothing is in flight: every frame pushed has been processed.
Quiescent == toConverter = <<>> /\ toLLM = <<>> /\ toAggregator = <<>> /\ ~llm.streaming

\* C3 as stated: every completed stop-recording -> cleanup cycle has put
\* exactly one transcript message on the way to the client, and an empty
\* utterance starts no cycle.
C3_OneTranscriptPerCycle ==
    /\ transcripts = completed
    /\ completed <= utterances

\* C3 as amended: every completed cycle whose response trims to a non-empty
\* text has put exactly one transcript message on the way to the client, every
\* other completed cycle none; a cycle is started for every stop-recording that
\* closes a non-empty utterance and for no other.
C3_OneTranscriptPerNonBlankCycle ==
    /\ transcripts = nonBlank
    /\ nonBlank <= completed
    /\ completed <= requests
    /\ requests <= utterances
    /\ Quiescent => completed = utterances

\* C3's case: two utterances were cleaned up, one to text and one to nothing,
\* and a stop-recording closed an empty utterance.
C3_Witness ==
    /\ Quiescent
    /\ utterances = 2
    /\ completed = 2
    /\ transcripts = 1

\* C20: every fragment the buffer pushes has a non-empty text without leading
\* or trailing whitespace; the converter turns each into exactly one cleanup
\* request, in order, whose user text is that text unchanged; so the cleanup
\* requests are as many as the stop-recording signals that pushed a fragment,
\* once the converter has processed what the buffer pushed.
C20_BufferFeedsConverter ==
    LET pending == {i \in 1..Len(toConverter) : IsFragment(toConverter[i])}
    IN  /\ \A i \in 1..Len(flushed) : flushed[i] # <<>> /\ Trim(flushed[i]) = flushed[i]
        /\ IsPrefix(requested, flushed)
        /\ Len(requested) + Cardinality(pending) = Len(flushed)
        /\ requests = Len(requested)
        /\ Len(flushed) = utterances

\* C20's case: a buffer with whitespace around and inside its text was
\* flushed, and the converter made the request for it.
C20_Witness ==
    /\ toConverter = <<>>
    /\ requests = 1
    /\ requested = << <<"a", " ", "a">> >>
    /\ flushed = requested
    /\ nInputs = MaxInputs
    /\ tbp.buffer = <<>>


====
